---- MODULE Spec2Model ----
(***************************************************************************)
(* Model of the interval collapse of mirdata/datasets/haydn_op20.py:       *)
(* _load_key_base / _load_chords_base turn the roman-numeral annotations   *)
(* of a score into (time, label) events, and load_key / load_chords        *)
(* collapse those events into start_times / end_times / names lists that   *)
(* are handed to KeyData / ChordData.                                      *)
(*                                                                         *)
(* A Python string is a sequence of one-character strings.  A Python list  *)
(* is a sequence; Python index 0 is index 1 here and index -1 is Len.      *)
(* An annotation carries the text that str() gives for its key or chord.   *)
(***************************************************************************)
EXTENDS Integers, Sequences, FiniteSets

\* ---- bounds of the model ------------------------------------------------
MaxEvents == 3
MaxOffset == 3
OffsetDen == 4
CoarseResolution == 2

\* ---- program constants --------------------------------------------------
DefaultResolution == 28

\* resolutions a caller passes: the default one and a coarse one with
\* which distinct offsets round to the same tick
Resolutions == {CoarseResolution, DefaultResolution}

\* the texts of the keys / chords of the annotations
Labels ==
  { <<"B", "-">>, <<"B", "b">>, <<"G", " ", "m">>, <<"G", ":", "m">>, <<"C">> }

\* offsets are multiples of 1/OffsetDen of a quarter note
Offsets == 0..MaxOffset

RnaEntries == [offset : Offsets, text : Labels]

RECURSIVE SeqsUpTo(_, _)
SeqsUpTo(S, n) ==
  IF n = 0 THEN { <<>> }
  ELSE LET shorter == SeqsUpTo(S, n - 1)
       IN  shorter \cup { Append(s, x) : s \in { q \in shorter : Len(q) = n - 1 }, x \in S }

\* rna is built as a dict keyed by offset: the offsets of its items are
\* pairwise distinct; their order is the order in which the score yields them
DistinctOffsets(s) ==
  \A i, j \in DOMAIN s : i # j => s[i].offset # s[j].offset

RnaLists == { s \in SeqsUpTo(RnaEntries, MaxEvents) : DistinctOffsets(s) }

VARIABLES fn, resolution, rna, annotations, pc, ii,
          start_times, end_times, names, err

vars == <<fn, resolution, rna, annotations, pc, ii,
          start_times, end_times, names, err>>

\* ---- pure helpers -------------------------------------------------------

\* str.replace(old, new) for one-character old and new
Replace(s, old, new) ==
  [i \in DOMAIN s |-> IF s[i] = old THEN new ELSE s[i]]

\* round(n / d) as Python 3 rounds a non-negative float: half to even
RoundHalfEven(n, d) ==
  LET q == n \div d
      r == n % d
  IN  IF 2 * r < d THEN q
      ELSE IF 2 * r > d THEN q + 1
      ELSE IF q % 2 = 0 THEN q ELSE q + 1

\* time = int(round(float(offset * resolution)))
TickOf(offset, res) == RoundHalfEven(offset * res, OffsetDen)

\* the annotations list built by the loop of _load_key_base
KeyBase(list, res) ==
  [i \in DOMAIN list |-> [time |-> TickOf(list[i].offset, res), label |-> list[i].text]]

\* the annotations list built by the loop of _load_chords_base
ChordsBase(list, res) ==
  [i \in DOMAIN list |-> [time |-> TickOf(list[i].offset, res), label |-> list[i].text]]

\* list[i]: the item, or IndexError when the index is out of range
\* (SubscriptDefault: a subscript that yields a default item instead)
SubscriptDefault(list, i) ==
  IF i \in DOMAIN list THEN [raised |-> "", value |-> list[i]]
  ELSE [raised |-> "", value |-> [time |-> 0, label |-> <<>>]]

Subscript(list, i) ==
  IF i \in DOMAIN list THEN [raised |-> "", value |-> list[i]]
  ELSE [raised |-> "IndexError"]

\* load_key: the name stored for the first interval
KeyFirstName(s) == Replace(s, "-", "b")

\* load_key: the name an event is compared with key_names[-1] under
KeyCmpName(s) == Replace(s, "-", "b")

\* load_key: the name stored for an interval opened inside the loop
KeyStoreName(s) == Replace(Replace(s, "-", "b"), " ", ":")

\* load_chords: str(chord) of a chord name that is a str already
ChordName(s) == s

FirstName(f, s) == IF f = "load_key" THEN KeyFirstName(s) ELSE ChordName(s)
CmpName(f, s)   == IF f = "load_key" THEN KeyCmpName(s) ELSE ChordName(s)
StoreName(f, s) == IF f = "load_key" THEN KeyStoreName(s) ELSE ChordName(s)

\* start_times = [0], whatever the first event is
FirstStartOfEvent(first) == first.time

FirstStart(first) == 0

\* end_times.append(keys[ii]["time"] - 1)
EndAtChangeSame(t) == t

EndAtChange(t) == t - 1

\* start_times.append(keys[ii]["time"])
StartAtChangeNext(t) == t + 1

StartAtChange(t) == t

\* end_times.append(keys[-1]["time"])
LastEndMinusOne(last) == last.time - 1

LastEnd(last) == last.time

\* the three lists after `start_times, end_times, names = [0], [], [...]`
InitialLists(f, evs) ==
  [start_times |-> <<FirstStart(evs[1])>>,
   end_times   |-> <<>>,
   names       |-> <<FirstName(f, evs[1].label)>>]

\* one iteration of `for ii, k in enumerate(...)` on the three lists
LoopBody(f, evs, st, i) ==
  IF CmpName(f, evs[i].label) # st.names[Len(st.names)]
  THEN [start_times |-> Append(st.start_times, StartAtChange(evs[i].time)),
        end_times   |-> Append(st.end_times, EndAtChange(evs[i].time)),
        names       |-> Append(st.names, StoreName(f, evs[i].label))]
  ELSE st

\* the statement after the loop
CloseLists(evs, st) ==
  [st EXCEPT !.end_times = Append(st.end_times, LastEnd(evs[Len(evs)]))]

RECURSIVE LoopFrom(_, _, _, _)
LoopFrom(f, evs, st, i) ==
  IF i > Len(evs) THEN st
  ELSE LoopFrom(f, evs, LoopBody(f, evs, st, i), i + 1)

\* the lists load_key / load_chords pass to KeyData / ChordData for a
\* non-empty event list
Collapse(f, evs) ==
  CloseLists(evs, LoopFrom(f, evs, InitialLists(f, evs), 1))

Lists == [start_times |-> start_times, end_times |-> end_times, names |-> names]

\* ---- the state machine --------------------------------------------------

Init ==
  /\ fn \in {"load_key", "load_chords"}
  /\ resolution \in Resolutions
  /\ rna \in RnaLists
  /\ annotations = <<>>
  /\ pc = "base"
  /\ ii = 1
  /\ start_times = <<>>
  /\ end_times = <<>>
  /\ names = <<>>
  /\ err = ""

\* keys = _load_key_base(fhandle, resolution)
LoadKeyBase ==
  /\ pc = "base"
  /\ fn = "load_key"
  /\ annotations' = KeyBase(rna, resolution)
  /\ pc' = "init"
  /\ UNCHANGED <<fn, resolution, rna, ii, start_times, end_times, names, err>>

\* chords = _load_chords_base(fhandle, resolution)
LoadChordsBase ==
  /\ pc = "base"
  /\ fn = "load_chords"
  /\ annotations' = ChordsBase(rna, resolution)
  /\ pc' = "init"
  /\ UNCHANGED <<fn, resolution, rna, ii, start_times, end_times, names, err>>

\* start_times, end_times, names = [0], [], [str(xs[0][...])...]
InitLists ==
  /\ pc = "init"
  /\ LET first == Subscript(annotations, 1)
     IN  IF first.raised # ""
         THEN /\ pc' = "raised"
              /\ err' = first.raised
              /\ UNCHANGED <<start_times, end_times, names>>
         ELSE /\ pc' = "loop"
              /\ err' = err
              /\ start_times' = <<FirstStart(first.value)>>
              /\ end_times' = <<>>
              /\ names' = <<FirstName(fn, first.value.label)>>
  /\ ii' = 1
  /\ UNCHANGED <<fn, resolution, rna, annotations>>

\* one iteration of the for loop
LoopStep ==
  /\ pc = "loop"
  /\ ii <= Len(annotations)
  /\ LET st == LoopBody(fn, annotations, Lists, ii)
     IN  /\ start_times' = st.start_times
         /\ end_times' = st.end_times
         /\ names' = st.names
  /\ ii' = ii + 1
  /\ UNCHANGED <<fn, resolution, rna, annotations, pc, err>>

\* end_times.append(xs[-1]["time"]); return KeyData(...) / ChordData(...)
Close ==
  /\ pc = "loop"
  /\ ii > Len(annotations)
  /\ LET last == Subscript(annotations, Len(annotations))
     IN  IF last.raised # ""
         THEN /\ pc' = "raised"
              /\ err' = last.raised
              /\ UNCHANGED end_times
         ELSE /\ pc' = "done"
              /\ err' = err
              /\ end_times' = Append(end_times, LastEnd(last.value))
  /\ UNCHANGED <<fn, resolution, rna, annotations, ii, start_times, names>>

Next ==
  \/ LoadKeyBase
  \/ LoadChordsBase
  \/ InitLists
  \/ LoopStep
  \/ Close

Spec == Init /\ [][Next]_vars

\* ---- definitions the properties are stated with --------------------------

\* the event list is sorted by time
Sorted(evs) ==
  \A i, j \in DOMAIN evs : i < j => evs[i].time <= evs[j].time

\* the normalization of a key: '-' -> 'b', then ' ' -> ':'
KeyNormalization(s) == Replace(Replace(s, "-", "b"), " ", ":")

\* the normalization of the labels of load_key and of load_chords
Normalized(f, s) == IF f = "load_key" THEN KeyNormalization(s) ELSE s

\* the number of maximal runs of consecutive events with equal normalized labels
NumRuns(f, evs) ==
  1 + Cardinality({ i \in 2..Len(evs) :
                     Normalized(f, evs[i].label) # Normalized(f, evs[i - 1].label) })

\* the event list with every label normalized beforehand
PreNormalized(f, evs) ==
  [i \in DOMAIN evs |-> [time |-> evs[i].time, label |-> Normalized(f, evs[i].label)]]

\* the intervals whose inclusive range [start_time, end_time] holds tick t
Covering(t) ==
  { i \in DOMAIN start_times : start_times[i] <= t /\ t <= end_times[i] }

\* every tick an event can have
Ticks == 0..(MaxOffset * DefaultResolution)

Returned == pc = "done"

\* ---- C1 ------------------------------------------------------------------
\* C1: for a non-empty time-sorted event list the number of intervals returned
\* equals the number of maximal runs of equal normalized labels.
C1_RunCount ==
  (Returned /\ Sorted(annotations))
    => Len(names) = NumRuns(fn, annotations)

\* ---- C2 ------------------------------------------------------------------
\* C2: for a non-empty event list with non-negative, non-decreasing times the
\* time of every event lies in [start_time, end_time] of exactly one interval.
C2_Coverage ==
  (Returned /\ Sorted(annotations))
    => \A k \in DOMAIN annotations :
         Cardinality(Covering(annotations[k].time)) = 1

C2_Witness ==
  /\ Returned
  /\ Sorted(annotations)
  /\ Len(annotations) = 3
  /\ Len(start_times) = 3
  /\ annotations[1].time = annotations[2].time
  /\ annotations[2].time < annotations[3].time

\* ---- C3 ------------------------------------------------------------------
\* C3: every interval, the first one included, is labelled with the normalized
\* label of the events of its run.
C3_NormalizedLabels ==
  Returned =>
    /\ names[1] = Normalized(fn, annotations[1].label)
    /\ \A i \in DOMAIN names :
         \E j \in DOMAIN annotations :
           /\ names[i] = Normalized(fn, annotations[j].label)
           /\ i > 1 => annotations[j].time = start_times[i]

\* ---- C4 ------------------------------------------------------------------
\* C4: the first interval returned has start_time 0 whatever the time of the
\* first event is.
C4_FirstStartZero ==
  Returned => start_times[1] = 0

C4_Witness ==
  /\ Returned
  /\ annotations[1].time > 0
  /\ Len(start_times) >= 2

\* ---- C5 ------------------------------------------------------------------
\* C5: the last interval ends exactly at the time of the last event; every
\* earlier interval ends one tick before the start of the next interval.
C5_EndTimes ==
  Returned =>
    /\ end_times[Len(end_times)] = annotations[Len(annotations)].time
    /\ \A i \in 1..(Len(end_times) - 1) : end_times[i] = start_times[i + 1] - 1

C5_Witness ==
  /\ Returned
  /\ Len(end_times) >= 2
  /\ annotations[Len(annotations)].time > start_times[Len(start_times)]

\* ---- C6 ------------------------------------------------------------------
\* C6: for a non-empty event list with non-decreasing times the intervals are
\* ordered and contiguous: start_times are non-decreasing, each interval starts
\* one tick after the end of the one before it, and no tick lies in two intervals.
C6_Contiguous ==
  (Returned /\ Sorted(annotations))
    => /\ \A i \in 1..(Len(start_times) - 1) :
            /\ start_times[i] <= start_times[i + 1]
            /\ start_times[i + 1] = end_times[i] + 1
       /\ \A t \in Ticks : Cardinality(Covering(t)) <= 1

C6_Witness ==
  /\ Returned
  /\ Sorted(annotations)
  /\ Len(start_times) = 3
  /\ start_times[2] < start_times[3]

\* ---- C7 ------------------------------------------------------------------
\* C7: with an empty event list the collapse fails with InvalidInput and
\* returns no interval data.
C7_EmptyInvalidInput ==
  (rna = <<>> /\ pc \notin {"base", "init"})
    => /\ pc = "raised"
       /\ err = "InvalidInput"
       /\ Lists = [start_times |-> <<>>, end_times |-> <<>>, names |-> <<>>]

\* C7 as amended: with an empty event list the collapse fails with the
\* IndexError of indexing the first event and returns no interval data.
C7_EmptyIndexError ==
  (rna = <<>> /\ pc \notin {"base", "init"})
    => /\ pc = "raised"
       /\ err = "IndexError"
       /\ Lists = [start_times |-> <<>>, end_times |-> <<>>, names |-> <<>>]

C7_Witness ==
  /\ rna = <<>>
  /\ pc = "raised"

\* ---- C8 ------------------------------------------------------------------
\* C8: an event list that is not sorted by time makes the collapse fail; no
\* intervals are returned for it.
C8_UnsortedFails ==
  Returned => Sorted(annotations)

\* ---- C9 ------------------------------------------------------------------
\* C9: the collapse of a non-empty sorted event list returns the same start
\* times, end times and labels as the collapse of the list whose labels were
\* normalized beforehand.
C9_PreNormalizedSame ==
  (Returned /\ Sorted(annotations))
    => Lists = Collapse(fn, PreNormalized(fn, annotations))

\* ---- C10 -----------------------------------------------------------------
\* C10: for a non-empty event list with non-negative, non-decreasing ticks
\* (equal ticks allowed) every interval returned has 0 <= start_time <=
\* end_time, and the three lists have the same length.
C10_WellFormed ==
  (Returned /\ Sorted(annotations))
    => /\ Len(start_times) = Len(end_times)
       /\ Len(end_times) = Len(names)
       /\ \A i \in DOMAIN start_times :
            0 <= start_times[i] /\ start_times[i] <= end_times[i]

====
